---- MODULE Spec2Model ----
(***************************************************************************)
(* A model of src/main.py, the PVS supply dashboard: a Streamlit script    *)
(* that reads supply observations from a MongoDB collection, derives       *)
(* percentage-change metrics from them, and appends observations through   *)
(* a form.                                                                 *)
(*                                                                         *)
(* Time is counted in clock ticks, SubSec ticks to the second, from the    *)
(* model's epoch.  A supply amount is a natural number (the form's         *)
(* number_input has min_value=0.0).  A percentage is an exact fraction     *)
(* [num, den] in lowest terms.                                             *)
(***************************************************************************)
EXTENDS Integers, Sequences, FiniteSets, TLC

\* ------------------------------------------------------------------------
\* Bounds of the model
\* ------------------------------------------------------------------------

\* Browser sessions running the script concurrently.
NumSessions == 2

\* Longest series handed to calculate_metrics in SpecMetrics.
MaxLen == 4

\* Clock ticks per second (the sub-second resolution of the wall clock).
SubSec == 2

\* ------------------------------------------------------------------------
\* Program constants
\* ------------------------------------------------------------------------

\* timedelta(days=1) in seconds.
DaySecs == 86400

\* timedelta(days=7), timedelta(days=30): the window lengths in days.
WeekDays == 7

MonthDays == 30

Days(n) == n * DaySecs * SubSec

Sessions == 1..NumSessions

\* Amounts of the series handed to calculate_metrics in SpecMetrics.
Supplies == {0, 100, 150}

\* Amounts entered in the form.
FormAmounts == {100, 150}

\* Instants the wall clock passes through.
Instants == {0, 1, Days(2)}

\* Timestamps picked in the form (date_input combined with time_input).
\* add_supply_data never reads the one it is handed (line 39).
FormTimes == {Days(1)}

\* Timestamps of the series handed to calculate_metrics in SpecMetrics.
SeriesTimes == {0, Days(30), Days(37), Days(39), Days(40)}

\* The states of the way to the store: reachable; the secrets hold no
\* MONGO_URI (line 13 raises KeyError); the URI in the secrets is malformed
\* (MongoClient raises); the URI is good and the server does not answer.
ConnStates == {"ok", "no_secret", "bad_uri", "down"}

VARIABLES
    store,      \* the collection pvs_db.pvs_db: documents in insertion order
    now,        \* the wall clock, in ticks
    conn,       \* the way to the store, one of ConnStates
    pc,         \* per session: "idle", "add" (the run is at line 245), "insert"
                \* (add_supply_data is at line 41), "rerun"
                \* (st.experimental_rerun() was called, line 247)
    req,        \* per session: timestamp and total_supply of the run (lines 238, 240)
    frame,      \* per session: collection and timestamp of add_supply_data
    ret,        \* per session: what add_supply_data returned
    added,      \* per session: the document the append of the run stored
    supply_df,  \* per session: the series of the last run (main, line 132)
    page,       \* per session: what the last run put on the page
    df,         \* SpecMetrics: the series handed to calculate_metrics
    mpc,        \* SpecMetrics: "input", "done" ("off" in Spec)
    metrics     \* SpecMetrics: what calculate_metrics returned

appvars == <<store, now, conn, pc, req, frame, ret, added, supply_df, page>>

purevars == <<df, mpc, metrics>>

vars == <<store, now, conn, pc, req, frame, ret, added, supply_df, page,
          df, mpc, metrics>>

\* ------------------------------------------------------------------------
\* Helpers
\* ------------------------------------------------------------------------

Abs(x) == IF x < 0 THEN -x ELSE x

RECURSIVE GCD(_, _)
GCD(a, b) == IF b = 0 THEN a ELSE GCD(b, a % b)

\* The quotient n / d of a float division, as a fraction in lowest terms.
\* A zero divisor gives the non-finite value [num |-> sign, den |-> 0].
Quot(n, d) ==
    IF d = 0
    THEN [num |-> IF n > 0 THEN 1 ELSE IF n < 0 THEN -1 ELSE 0, den |-> 0]
    ELSE LET g == GCD(Abs(n), Abs(d))
             sg == IF d < 0 THEN -1 ELSE 1
         IN [num |-> sg * (n \div g), den |-> sg * (d \div g)]

Zero == [num |-> 0, den |-> 1]

\* ------------------------------------------------------------------------
\* calculate_metrics (lines 51-100)
\* ------------------------------------------------------------------------

ZeroMetrics ==
    [exc |-> "none", m24h |-> Zero, m7d |-> Zero, m30d |-> Zero, total |-> Zero]

\* df[df['time'] >= cutoff]
window_df_strict(d, cutoff) == SelectSeq(d, LAMBDA r : r.time > cutoff)

window_df(d, cutoff) == SelectSeq(d, LAMBDA r : r.time >= cutoff)

\* ((latest_supply - first) / first) * 100 if first != 0 else 0
pct_change(latest_supply, first) ==
    IF first # 0 THEN Quot((latest_supply - first) * 100, first) ELSE Zero

\* One of the three windowed changes: lines 65-70, 73-78, 81-86.
window_change(d, latest_supply, latest_time, ndays) ==
    LET w == window_df(d, latest_time - Days(ndays))
    IN IF Len(w) > 1 THEN pct_change(latest_supply, w[1].total_supply) ELSE Zero

\* Lines 88-93.
total_change(d, latest_supply) ==
    IF Len(d) > 1 THEN pct_change(latest_supply, d[1].total_supply) ELSE Zero

\* Lines 60-100.  df.iloc[-1] of an empty frame raises IndexError.
metrics_body(d) ==
    IF Len(d) = 0
    THEN [ZeroMetrics EXCEPT !.exc = "IndexError"]
    ELSE LET latest == d[Len(d)]
             latest_supply == latest.total_supply
             latest_time == latest.time
         IN [exc |-> "none",
             m24h |-> window_change(d, latest_supply, latest_time, 1),
             m7d |-> window_change(d, latest_supply, latest_time, WeekDays),
             m30d |-> window_change(d, latest_supply, latest_time, MonthDays),
             total |-> total_change(d, latest_supply)]

calculate_metrics_noguard(d) == metrics_body(d)

calculate_metrics(d) == IF Len(d) < 2 THEN ZeroMetrics ELSE metrics_body(d)

\* ------------------------------------------------------------------------
\* Timestamps and their serialized form
\* ------------------------------------------------------------------------

\* datetime.replace(microsecond=0): the instant cut to its whole second.
replace_microsecond(t) == t - (t % SubSec)

\* datetime.isoformat(): the date, the time of day and, when it is not zero,
\* the fraction of the second.
isoformat(t) ==
    [date |-> (t \div SubSec) \div DaySecs,
     tod |-> (t \div SubSec) % DaySecs,
     frac |-> t % SubSec]

\* pd.to_datetime of an ISO-8601 string.
to_datetime(iso) == (iso.date * DaySecs + iso.tod) * SubSec + iso.frac

\* ------------------------------------------------------------------------
\* The store adapter (lines 10-48)
\* ------------------------------------------------------------------------

\* get_mongodb_connection.  Line 13 reads st.secrets["MONGO_URI"] outside
\* the try: without the secret KeyError leaves the function.  MongoClient
\* raises on a malformed URI, which is caught, shown with st.error and
\* answered with None.  MongoClient does not contact the server: an
\* unreachable server shows at the first operation.
get_mongodb_connection ==
    IF conn = "no_secret"
    THEN [raised |-> "KeyError", collection |-> "None", errors |-> {}]
    ELSE IF conn = "bad_uri"
    THEN [raised |-> "none", collection |-> "None",
          errors |-> {"Failed to connect to MongoDB"}]
    ELSE [raised |-> "none", collection |-> "pvs_db", errors |-> {}]

\* What an operation on the collection raises, "none" if nothing: None has
\* no find and no insert_one; a server that does not answer times out.
operation_error(collection) ==
    IF collection = "None" THEN "AttributeError"
    ELSE IF conn = "down" THEN "ServerSelectionTimeoutError"
    ELSE "none"

\* What lines 25-26 of get_supply_data raise, "none" if nothing.
read_error ==
    IF get_mongodb_connection.raised # "none" THEN get_mongodb_connection.raised
    ELSE operation_error(get_mongodb_connection.collection)

\* A permutation of 1..n, as a function.
Perms(n) == {f \in [1..n -> 1..n] : \A i, j \in 1..n : f[i] = f[j] => i = j}

\* list(collection.find()): every stored document, once.  A find without a
\* sort returns the documents in natural order, which the store does not
\* promise to be the insertion order.
find(coll) == {[i \in 1..Len(coll) |-> coll[f[i]]] : f \in Perms(Len(coll))}

\* collection.insert_one(doc): the store gives the document an _id of its own.
insert_one_upsert(coll, doc) ==
    IF \E i \in 1..Len(coll) : coll[i].time = doc.time
    THEN [i \in 1..Len(coll) |->
             IF coll[i].time = doc.time
             THEN [_id |-> coll[i]._id, time |-> doc.time,
                   total_supply |-> doc.total_supply]
             ELSE coll[i]]
    ELSE Append(coll, [_id |-> Len(coll) + 1, time |-> doc.time,
                       total_supply |-> doc.total_supply])

insert_one(coll, doc) ==
    Append(coll, [_id |-> Len(coll) + 1, time |-> doc.time,
                  total_supply |-> doc.total_supply])

\* df['time'] = pd.to_datetime(df['time'])
parse_time_column(data) ==
    [i \in 1..Len(data) |->
        [_id |-> data[i]._id, time |-> to_datetime(data[i].time),
         total_supply |-> data[i].total_supply]]

\* The rows in ascending order of time, rows of equal time in the order they
\* had (frames of this size are sorted by insertion).
RECURSIVE sorted_by_time(_)
sorted_by_time(d) ==
    IF d = <<>> THEN <<>>
    ELSE LET n == Len(d)
             r == d[n]
             a == sorted_by_time(SubSeq(d, 1, n - 1))
             k == Cardinality({i \in 1..Len(a) : a[i].time <= r.time})
         IN SubSeq(a, 1, k) \o <<r>> \o SubSeq(a, k + 1, Len(a))

sort_values_descending(d) ==
    LET a == sorted_by_time(d) IN [i \in 1..Len(a) |-> a[Len(a) + 1 - i]]

sort_values_noop(d) == d

\* df.sort_values('time')
sort_values(d) == sorted_by_time(d)

\* df[['time','total_supply']]
project(d) ==
    [i \in 1..Len(d) |-> [time |-> d[i].time, total_supply |-> d[i].total_supply]]

\* get_supply_data, given what list(collection.find()) returned.
get_supply_data(data) ==
    IF data # <<>> THEN project(sort_values(parse_time_column(data))) ELSE <<>>

\* ------------------------------------------------------------------------
\* The page of a session
\* ------------------------------------------------------------------------

\* tiles: "metrics" (the four tiles, showing `shown`), "warning", "none"
\* hist:  "chart" (slider, chart and table), "warning", "none"
\* form:  the add-data form is on the page
\* msgs:  the st.error / st.success texts on the page
\* exc, at: the exception that ended the run and the function that raised it
BlankPage ==
    [tiles |-> "none", shown |-> ZeroMetrics, hist |-> "none", form |-> FALSE,
     msgs |-> {}, exc |-> "none", at |-> "none"]

NoDoc == [_id |-> 0, time |-> isoformat(0), total_supply |-> 0]

NoReq == [ts |-> 0, amount |-> 0]

NoFrame == [collection |-> "None", timestamp |-> 0]

\* ------------------------------------------------------------------------
\* Init
\* ------------------------------------------------------------------------

InitApp ==
    /\ store = <<>>
    /\ now = 0
    /\ conn = "ok"
    /\ pc = [s \in Sessions |-> "idle"]
    /\ req = [s \in Sessions |-> NoReq]
    /\ frame = [s \in Sessions |-> NoFrame]
    /\ ret = [s \in Sessions |-> "unset"]
    /\ added = [s \in Sessions |-> NoDoc]
    /\ supply_df = [s \in Sessions |-> <<>>]
    /\ page = [s \in Sessions |-> BlankPage]

Init ==
    /\ InitApp
    /\ df = <<>>
    /\ mpc = "off"
    /\ metrics = ZeroMetrics

\* ------------------------------------------------------------------------
\* The environment
\* ------------------------------------------------------------------------

\* The wall clock moves on.
Tick(t) ==
    /\ t > now
    /\ now' = t
    /\ UNCHANGED <<store, conn, pc, req, frame, ret, added, supply_df, page>>
    /\ UNCHANGED purevars

\* The server goes away or comes back, or the URI in the secrets is edited.
SetConn(c) ==
    /\ c # conn
    /\ conn' = c
    /\ UNCHANGED <<store, now, pc, req, frame, ret, added, supply_df, page>>
    /\ UNCHANGED purevars

\* ------------------------------------------------------------------------
\* A run of the script: main, lines 117-242
\* ------------------------------------------------------------------------

\* The script reads the store once, at line 132, and nothing else of it is
\* shared, so a run up to the submit handler is one step.
\*
\* Line 132 raises when get_mongodb_connection raises (no secret), when
\* get_supply_data calls find on None (the connection could not be made) or
\* when the find fails (the server does not answer); nothing catches it and
\* the run ends there.
\*
\* With rows in the series, tab 1 shows the tiles (lines 145-186) and tab 2
\* takes supply_df.index.min().date() (line 197): the index holds row
\* numbers, a number has no date(), and AttributeError ends the run before
\* the slider, the chart, the table and the form.
\*
\* With the empty series both tabs warn (lines 189, 221), the form is drawn,
\* and a run started by the submit button goes on to line 245.
Script(s, submitted, ts, amount) ==
    IF read_error # "none"
    THEN /\ page' = [page EXCEPT ![s] =
                        [BlankPage EXCEPT !.msgs = get_mongodb_connection.errors,
                                          !.exc = read_error,
                                          !.at = "get_supply_data"]]
         /\ supply_df' = [supply_df EXCEPT ![s] = <<>>]
         /\ pc' = [pc EXCEPT ![s] = "idle"]
         /\ req' = [req EXCEPT ![s] = NoReq]
    ELSE \E data \in find(store) :
         IF get_supply_data(data) # <<>>
         THEN /\ supply_df' = [supply_df EXCEPT ![s] = get_supply_data(data)]
              /\ page' = [page EXCEPT ![s] =
                             [BlankPage EXCEPT
                                 !.tiles = "metrics",
                                 !.shown = calculate_metrics(get_supply_data(data)),
                                 !.exc = "AttributeError",
                                 !.at = "main"]]
              /\ pc' = [pc EXCEPT ![s] = "idle"]
              /\ req' = [req EXCEPT ![s] = NoReq]
         ELSE /\ supply_df' = [supply_df EXCEPT ![s] = <<>>]
              /\ page' = [page EXCEPT ![s] =
                             [BlankPage EXCEPT !.tiles = "warning",
                                               !.hist = "warning",
                                               !.form = TRUE]]
              /\ pc' = [pc EXCEPT ![s] = IF submitted THEN "add" ELSE "idle"]
              /\ req' = [req EXCEPT ![s] =
                            IF submitted THEN [ts |-> ts, amount |-> amount]
                            ELSE NoReq]

\* The page is opened or reloaded: a run without a submission.
Load(s) ==
    /\ pc[s] = "idle"
    /\ Script(s, FALSE, 0, 0)
    /\ ret' = [ret EXCEPT ![s] = "unset"]
    /\ UNCHANGED <<store, now, conn, frame, added, df, mpc, metrics>>

\* "Add Data" is pressed on a page that shows the form: a run in which
\* st.form_submit_button returns True (line 242); timestamp and amount are
\* what the form holds (lines 232-240).
Submit(s, ts, amount) ==
    /\ pc[s] = "idle"
    /\ page[s].form
    /\ Script(s, TRUE, ts, amount)
    /\ ret' = [ret EXCEPT ![s] = "unset"]
    /\ UNCHANGED <<store, now, conn, frame, added, df, mpc, metrics>>

\* The run that st.experimental_rerun() starts (line 247).
Rerun(s) ==
    /\ pc[s] = "rerun"
    /\ Script(s, FALSE, 0, 0)
    /\ ret' = [ret EXCEPT ![s] = "unset"]
    /\ added' = [added EXCEPT ![s] = NoDoc]
    /\ UNCHANGED <<store, now, conn, frame, df, mpc, metrics>>

\* ------------------------------------------------------------------------
\* The submission: main, lines 244-249, and add_supply_data, lines 37-48
\* ------------------------------------------------------------------------

\* The document add_supply_data inserts at lines 41-44: the timestamp of
\* line 39 serialized, and the amount handed in.
new_document(timestamp, total_supply) ==
    [time |-> isoformat(timestamp), total_supply |-> total_supply]

\* Line 245 calls add_supply_data; lines 38-39.  Without the secret line 38
\* raises KeyError, before the try: it leaves add_supply_data and ends the
\* run, with no return value and no error text.  Else the function holds
\* its collection (None after a malformed URI) and, in place of the
\* timestamp handed in, the wall clock cut to the second.
AddSupplyDataEnter(s) ==
    /\ pc[s] = "add"
    /\ IF get_mongodb_connection.raised # "none"
       THEN /\ page' = [page EXCEPT ![s].exc = get_mongodb_connection.raised,
                                    ![s].at = "add_supply_data"]
            /\ ret' = [ret EXCEPT ![s] = "raised"]
            /\ pc' = [pc EXCEPT ![s] = "idle"]
            /\ req' = [req EXCEPT ![s] = NoReq]
            /\ frame' = frame
       ELSE /\ page' = [page EXCEPT ![s].msgs = get_mongodb_connection.errors]
            /\ frame' = [frame EXCEPT ![s] =
                            [collection |-> get_mongodb_connection.collection,
                             timestamp |-> replace_microsecond(now)]]
            /\ pc' = [pc EXCEPT ![s] = "insert"]
            /\ UNCHANGED <<req, ret>>
    /\ UNCHANGED <<store, now, conn, added, supply_df, df, mpc, metrics>>

\* Lines 40-47 and 245-249.  insert_one is a call to the server: other
\* sessions act between line 39 and the insert.  The insert goes through:
\* add_supply_data returns True, main shows the success text and calls
\* st.experimental_rerun().  Or insert_one raises (on None, or the server
\* does not answer): the except clause shows the error and the function
\* falls off its end, returning None; main shows its own error text and the
\* run ends.
AddSupplyDataInsert(s) ==
    /\ pc[s] = "insert"
    /\ IF operation_error(frame[s].collection) = "none"
       THEN /\ store' = insert_one(store, new_document(frame[s].timestamp,
                                                     req[s].amount))
            /\ added' = [added EXCEPT ![s] = store'[Len(store')]]
            /\ ret' = [ret EXCEPT ![s] = "True"]
            /\ page' = [page EXCEPT ![s].msgs = {"Successfully added supply data"}]
            /\ pc' = [pc EXCEPT ![s] = "rerun"]
            /\ req' = req
       ELSE /\ store' = store
            /\ added' = added
            /\ ret' = [ret EXCEPT ![s] = "None"]
            /\ page' = [page EXCEPT ![s].msgs =
                           page[s].msgs \cup {"Failed to add data",
                                              "Failed to add data to MongoDB"}]
            /\ pc' = [pc EXCEPT ![s] = "idle"]
            /\ req' = [req EXCEPT ![s] = NoReq]
    /\ frame' = [frame EXCEPT ![s] = NoFrame]
    /\ UNCHANGED <<now, conn, supply_df, df, mpc, metrics>>

\* ------------------------------------------------------------------------
\* The dashboard
\* ------------------------------------------------------------------------

Next ==
    \/ \E t \in Instants : Tick(t)
    \/ \E c \in ConnStates : SetConn(c)
    \/ \E s \in Sessions : Load(s)
    \/ \E s \in Sessions, ts \in FormTimes, amount \in FormAmounts : Submit(s, ts, amount)
    \/ \E s \in Sessions : AddSupplyDataEnter(s)
    \/ \E s \in Sessions : AddSupplyDataInsert(s)
    \/ \E s \in Sessions : Rerun(s)

Spec == Init /\ [][Next]_vars

\* ------------------------------------------------------------------------
\* calculate_metrics on its own: every time-ascending series up to MaxLen
\* ------------------------------------------------------------------------

Rows == [time : SeriesTimes, total_supply : Supplies]

AscendingSeries ==
    {d \in UNION {[1..n -> Rows] : n \in 0..MaxLen} :
        \A i \in 1..(Len(d) - 1) : d[i].time <= d[i + 1].time}

InitMetrics ==
    /\ InitApp
    /\ df \in AscendingSeries
    /\ mpc = "input"
    /\ metrics = ZeroMetrics

Compute ==
    /\ mpc = "input"
    /\ metrics' = calculate_metrics(df)
    /\ mpc' = "done"
    /\ UNCHANGED <<store, now, conn, pc, req, frame, ret, added, supply_df, page, df>>

SpecMetrics == InitMetrics /\ [][Compute]_vars

\* ------------------------------------------------------------------------
\* Properties
\* ------------------------------------------------------------------------

\* m is the percentage change from amount base to amount latest_supply.
IsChange(m, latest_supply, base) ==
    /\ m.den > 0
    /\ m.num * base = (latest_supply - base) * 100 * m.den

\* m is the change the window of length W asks for: with the points at or
\* after cutoff = (time of the last point) - W, 0 if they are fewer than two
\* or the first of them holds 0, else the change from the first of them.
IsWindowChange(d, W, m) ==
    LET n == Len(d)
        cutoff == d[n].time - W
        win == {i \in 1..n : d[i].time >= cutoff}
    IN IF Cardinality(win) < 2 THEN m = Zero
       ELSE LET baseline == d[CHOOSE i \in win : \A j \in win : i <= j]
            IN IF baseline.total_supply = 0 THEN m = Zero
               ELSE IsChange(m, d[n].total_supply, baseline.total_supply)

\* C1: for a time-ascending series of at least 2 points, calculate_metrics
\* returns for each window of 24 hours, 7 days and 30 days the change from
\* the first point at or after the cutoff (the boundary included) to the
\* last point, 0 when the window holds fewer than 2 points or its baseline
\* is 0; the lifetime change is the same with the first point of the series
\* as baseline; and no series makes it raise or divide by zero.
C1_WindowedChanges ==
    (mpc = "done" /\ Len(df) >= 2) =>
        /\ metrics.exc = "none"
        /\ IsWindowChange(df, Days(1), metrics.m24h)
        /\ IsWindowChange(df, Days(7), metrics.m7d)
        /\ IsWindowChange(df, Days(30), metrics.m30d)
        /\ IF df[1].total_supply = 0 THEN metrics.total = Zero
           ELSE IsChange(metrics.total, df[Len(df)].total_supply,
                         df[1].total_supply)

\* A series whose first point holds 0 (the lifetime change is guarded) and
\* which has a point exactly 24 hours before the last, the baseline of a
\* 24-hour change that is not 0.
C1_Witness ==
    /\ mpc = "done"
    /\ Len(df) >= 3
    /\ df[1].total_supply = 0
    /\ metrics.total = Zero
    /\ df[Len(df) - 1].time = df[Len(df)].time - Days(1)
    /\ df[Len(df) - 2].time < df[Len(df)].time - Days(30)
    /\ metrics.m24h # Zero
    /\ metrics.m30d = metrics.m24h

\* C7: for a series of fewer than 2 points (empty or a single point)
\* calculate_metrics returns 0 for all four metrics.
C7_ShortSeriesAllZero ==
    (mpc = "done" /\ Len(df) < 2) =>
        /\ metrics.exc = "none"
        /\ metrics.m24h = Zero
        /\ metrics.m7d = Zero
        /\ metrics.m30d = Zero
        /\ metrics.total = Zero

C7_Witness == mpc = "done" /\ df = <<>>

\* Session s makes a run of the script in this step (Load, Submit, Rerun).
ScriptStep(s) ==
    /\ pc[s] \notin {"add", "insert"}
    /\ <<pc[s], req[s], ret[s], added[s], supply_df[s], page[s]>>
           # <<pc'[s], req'[s], ret'[s], added'[s], supply_df'[s], page'[s]>>

\* Session s makes the run that follows its successful append.
RerunStep(s) == pc[s] = "rerun" /\ pc'[s] # "rerun"

\* Session s's call of add_supply_data ends in this step: it returns from
\* the insert, or raises at line 38.
AddStep(s) ==
    \/ pc[s] = "insert" /\ pc'[s] # "insert"
    \/ pc[s] = "add" /\ pc'[s] = "idle"

\* ... and it has stored nothing: the insert raised, or no connection was
\* to be had.
AddFailed(s) == AddStep(s) /\ ret'[s] # "True"

\* The row of the series a stored document stands for.
RowOf(doc) == [time |-> to_datetime(doc.time), total_supply |-> doc.total_supply]

\* C2: an observation (timestamp, total_supply) handed to add_supply_data,
\* the append succeeding, is found by the following read: a row whose time
\* is the timestamp handed in and whose total_supply is the amount.
C2_RoundTrip ==
    [][\A s \in Sessions :
        (RerunStep(s) /\ page'[s].at # "get_supply_data") =>
            \E i \in 1..Len(supply_df'[s]) :
                /\ supply_df'[s][i].time = replace_microsecond(req[s].ts)
                /\ supply_df'[s][i].total_supply = req[s].amount]_vars

\* C3: with the store unreachable (no connection, or the read fails) or
\* empty, the read path returns the empty series and the run goes on to the
\* warning; no exception leaves get_supply_data.
C3_ReadDegradesToEmpty ==
    [][\A s \in Sessions :
        (ScriptStep(s) /\ (read_error # "none" \/ store = <<>>)) =>
            /\ supply_df'[s] = <<>>
            /\ page'[s].at # "get_supply_data"
            /\ page'[s].tiles = "warning"
            /\ page'[s].hist = "warning"]_vars

\* C4: when the insert fails, add_supply_data returns False and shows an
\* error, the collection is what it was, and the submit handler shows its
\* failure text and starts no rerun.
C4_FailedAppendReturnsFalse ==
    [][\A s \in Sessions :
        AddFailed(s) =>
            /\ ret'[s] = "False"
            /\ "Failed to add data" \in page'[s].msgs
            /\ "Failed to add data to MongoDB" \in page'[s].msgs
            /\ store' = store
            /\ pc'[s] = "idle"]_vars

\* C5: every successful append adds exactly one document, holding the
\* amount handed in, and leaves the documents already stored as they were,
\* whatever they hold (a timestamp already present is stored again); no
\* other step changes the collection, whichever sessions interleave.
C5_AppendAddsOneDocument ==
    [][/\ Len(store') =
            Len(store) + Cardinality({s \in Sessions : AddStep(s) /\ ret'[s] = "True"})
       /\ \A i \in 1..Len(store) : i <= Len(store') /\ store'[i] = store[i]
       /\ \A s \in Sessions :
            (AddStep(s) /\ ret'[s] = "True") =>
                /\ store'[Len(store')].total_supply = req[s].amount
                /\ \A i \in 1..Len(store) : store[i]._id # store'[Len(store')]._id
       /\ \A s \in Sessions :
            (AddStep(s) /\ ret'[s] # "True") => store' = store]_vars

\* Two sessions have appended within the same second: two documents with
\* the same timestamp are stored.
C5_Witness ==
    \E i, j \in 1..Len(store) :
        /\ i < j
        /\ store[i].time = store[j].time
        /\ store[i].total_supply # store[j].total_supply

\* C6: the series get_supply_data returns is ascending in time and holds one
\* row per stored document, rows of equal timestamp all kept, each row the
\* two fields time and total_supply.
C6_SeriesSortedAndComplete ==
    [][\A s \in Sessions :
        (ScriptStep(s) /\ page'[s].at # "get_supply_data") =>
            LET d == supply_df'[s]
            IN /\ Len(d) = Len(store)
               /\ \A i \in 1..(Len(d) - 1) : d[i].time <= d[i + 1].time
               /\ \A i \in 1..Len(d) : DOMAIN d[i] = {"time", "total_supply"}
               /\ \A i \in 1..Len(store) :
                    Cardinality({j \in 1..Len(d) : d[j] = RowOf(store[i])})
                        = Cardinality({j \in 1..Len(store) :
                                          RowOf(store[j]) = RowOf(store[i])})]_vars

\* A series read from a store of documents of different timestamps.
C6_Witness ==
    \E s \in Sessions :
        /\ Len(supply_df[s]) >= 2
        /\ supply_df[s][1].time < supply_df[s][Len(supply_df[s])].time
        /\ page[s].tiles = "metrics"

\* C9: the run that follows a successful append reads the store after the
\* insert: the series behind its tiles, its chart and its table holds the
\* observation just appended.
C9_RerunShowsNewPoint ==
    [][\A s \in Sessions :
        RerunStep(s) =>
            /\ \E i \in 1..Len(supply_df'[s]) : supply_df'[s][i] = RowOf(added[s])
            /\ page'[s].tiles = "metrics"
            /\ page'[s].hist = "chart"]_vars

\* The metrics the dashboard shows for a collection returned in this order.
metrics_of(data) == calculate_metrics(get_supply_data(data))

\* C10 as claimed: whatever the order in which the observations were
\* inserted or are returned, observations of equal timestamp and different
\* amount included, the four metrics are the same.
C10_OrderIndependent ==
    \A data \in find(store) : metrics_of(data) = metrics_of(store)

\* Stored observations of equal timestamp hold equal amounts.
TiesAgree(coll) ==
    \A i, j \in 1..Len(coll) :
        coll[i].time = coll[j].time => coll[i].total_supply = coll[j].total_supply

\* C10, amended: when the observations that share a timestamp also share
\* their amount, the four metrics are the same for every order in which the
\* observations were inserted or are returned.
C10_OrderIndependentWithoutTies ==
    TiesAgree(store) =>
        \A data \in find(store) : metrics_of(data) = metrics_of(store)

\* Observations of different timestamps whose metrics are not all 0.
C10_Witness ==
    /\ Len(store) >= 2
    /\ TiesAgree(store)
    /\ store[1].time # store[Len(store)].time
    /\ metrics_of(store) # ZeroMetrics

====
